---- MODULE Spec2Model ----
(***************************************************************************)
(* A model of Optional<T> (Optional.hpp).                                  *)
(*                                                                         *)
(* Each container is an object with the two members of the class:          *)
(*   has_value_ : the presence flag                                        *)
(*   value_     : the raw storage, sizeof(T) bytes                         *)
(* The storage is modelled as a cell [live, val]: live says whether the    *)
(* lifetime of a T object is running in the storage (started by            *)
(* std::construct_at, ended by ~T()), val is the value of that T.  The     *)
(* code never sees live; it only sees has_value_.                          *)
(*                                                                         *)
(* T is a type parameter: its constructors may throw, and reading a T out  *)
(* of storage that holds no live T is undefined and yields any value.      *)
(***************************************************************************)
EXTENDS Integers, FiniteSets, Sequences, TLC

\* Bounds of the model.
MaxVal == 2
MaxSteps == 4

Objs == {"A", "B"}
Vals == 0..MaxVal
NoVal == -1
NoObj == "none"

VARIABLES
  alive,       \* alive[o]: the container object o exists
  has_value_,  \* has_value_[o]: the member has_value_ of o
  value_,      \* value_[o]: the member value_ of o, as a cell
  nCtor,       \* T objects constructed into a container's storage
  nDtor,       \* destructor runs on a live T in a container's storage
  nBadDtor,    \* destructor runs on storage that holds no live T
  nLeak,       \* live T objects overwritten or dropped with their storage
  nDeadRead,   \* reads of a T out of storage that holds no live T
  steps,       \* calls made so far
  pre,         \* the containers before the last call
  last,        \* the last call and its outcome
  cp           \* the last copy construction from a present source

vars == <<alive, has_value_, value_, nCtor, nDtor, nBadDtor, nLeak, nDeadRead,
          steps, pre, last, cp>>

\* Storage that holds no live T.
DeadCell == [live |-> FALSE, val |-> NoVal]

LiveCell(v) == [live |-> TRUE, val |-> v]

\* reinterpret_cast<T*>(&value_): the storage of o is o's own member array.
StorageShared(o) == "A"

Storage(o) == o

\* The part of the state the member functions work on.
World == [hv |-> has_value_, mem |-> value_, ctor |-> nCtor, dtor |-> nDtor,
          bad |-> nBadDtor, leak |-> nLeak, rd |-> nDeadRead,
          fn |-> 0, farg |-> NoVal]

Out(w, res, ret) == [w |-> w, res |-> res, ret |-> ret]

\* A bool as a returned value.
B2N(b) == IF b THEN 1 ELSE 0

\* The function the caller hands to transform.
Fn(v) == (v + 1) % (MaxVal + 1)

\* fn(v): one invocation of the caller's function, with argument v.
CallFn(w, v) == [w EXCEPT !.fn = @ + 1, !.farg = v]

----------------------------------------------------------------------------
\* Primitive steps on the storage.

\* value().~T(): runs T's destructor on the storage of o.
Destruct(w, o) ==
  IF w.mem[Storage(o)].live
  THEN [w EXCEPT !.mem[Storage(o)] = DeadCell, !.dtor = @ + 1]
  ELSE [w EXCEPT !.bad = @ + 1]

\* std::construct_at<T>(reinterpret_cast<T*>(&value_), v), when T's
\* constructor returns normally.
ConstructAt(w, o, v) ==
  [w EXCEPT !.mem[Storage(o)] = LiveCell(v),
            !.ctor = @ + 1,
            !.leak = @ + (IF w.mem[Storage(o)].live THEN 1 ELSE 0)]

\* The values that reading the T in the storage of o can yield: the value of
\* the live T, or anything when the storage holds no live T.
ReadT(w, o) ==
  IF w.mem[Storage(o)].live THEN {w.mem[Storage(o)].val} ELSE Vals

\* The world after such a read.
Read(w, o) ==
  IF w.mem[Storage(o)].live THEN w ELSE [w EXCEPT !.rd = @ + 1]

----------------------------------------------------------------------------
\* Member functions, as functions from a world to the set of their outcomes.

throw_if_inactive_never(w, o) == FALSE

\* TRUE when _throw_if_inactive() throws.
throw_if_inactive(w, o) == ~w.hv[o]

clear_always_destructs(w, o) ==
  [Destruct(w, o) EXCEPT !.hv[o] = FALSE]

\* clear(): if(has_value_) value().~T(); has_value_ = false.
clear(w, o) ==
  LET w1 == IF w.hv[o] THEN Destruct(w, o) ELSE w
  IN  [w1 EXCEPT !.hv[o] = FALSE]

\* value() & and value() const&.
value_ref(w, o) ==
  IF throw_if_inactive(w, o)
  THEN {Out(w, "BadAccess", NoVal)}
  ELSE {Out(Read(w, o), "ok", v) : v \in ReadT(w, o)}

release_value_keeps_flag(w, o) ==
  IF throw_if_inactive(w, o)
  THEN {Out(w, "BadAccess", NoVal)}
  ELSE {Out(Destruct(Read(w, o), o), "ok", v) : v \in ReadT(w, o)}
       \cup {Out(w, "TThrow", NoVal)}

\* release_value(): T released = std::move(value()) may throw and leaves the
\* container as it was; then the in-place T is destroyed and the flag reset;
\* the move of released into the caller's object may throw as well.
release_value(w, o) ==
  IF throw_if_inactive(w, o)
  THEN {Out(w, "BadAccess", NoVal)}
  ELSE LET w1 == [Destruct(Read(w, o), o) EXCEPT !.hv[o] = FALSE]
       IN  {Out(w1, "ok", v) : v \in ReadT(w, o)}
           \cup {Out(w, "TThrow", NoVal), Out(w1, "TThrow", NoVal)}

value_rvalue_as_ref(w, o) == value_ref(w, o)

\* value() &&.
value_rvalue(w, o) == release_value(w, o)

\* value() in the three access contexts.
value(w, o, ctx) ==
  IF ctx = "rvalue" THEN value_rvalue(w, o) ELSE value_ref(w, o)

\* Continues a call that needs a T built in the storage of o from the value
\* an inner call r yields: construct_at either builds the T or T's
\* constructor throws; a failure of the inner call propagates.
ConstructFrom(r, o, setflag) ==
  IF r.res = "ok"
  THEN {Out(IF setflag
            THEN [ConstructAt(r.w, o, r.ret) EXCEPT !.hv[o] = TRUE]
            ELSE ConstructAt(r.w, o, r.ret), "ok", NoVal),
        Out(r.w, "TThrow", NoVal)}
  ELSE {Out(r.w, r.res, NoVal)}

emplace_no_clear(w, o, v) ==
  LET w2 == [w EXCEPT !.hv[o] = TRUE]
  IN  {Out(ConstructAt(w2, o, v), "ok", NoVal),
       Out(w2, "TThrow", NoVal)}

\* emplace(args...): clear(); has_value_ = true; construct_at(args...).
emplace(w, o, v) ==
  LET w1 == clear(w, o)
      w2 == [w1 EXCEPT !.hv[o] = TRUE]
  IN  {Out(ConstructAt(w2, o, v), "ok", NoVal),
       Out(w2, "TThrow", NoVal)}

ctor_default_uninit(w, o) == {Out(w, "ok", NoVal)}

\* Optional() and Optional(const __Nullopt&): has_value_(false).
ctor_default(w, o) == {Out([w EXCEPT !.hv[o] = FALSE], "ok", NoVal)}

\* Optional(Args&&...): construct_at(args...); has_value_ = true.
ctor_forward(w, o, v) ==
  {Out([ConstructAt(w, o, v) EXCEPT !.hv[o] = TRUE], "ok", NoVal),
   Out(w, "TThrow", NoVal)}

\* Optional(const Optional&): returns at once when other is empty, and then
\* has_value_ keeps whatever the memory of the new object held.
ctor_copy(w, o, other) ==
  IF ~w.hv[other]
  THEN {Out(w, "ok", NoVal)}
  ELSE UNION {ConstructFrom(r, o, TRUE) : r \in value_ref(w, other)}

ctor_move_copies(w, o, other) ==
  IF ~w.hv[other]
  THEN {Out(w, "ok", NoVal)}
  ELSE UNION {ConstructFrom(r, o, TRUE) : r \in value_ref(w, other)}

\* Optional(Optional&&): as the copy constructor, with other.release_value().
ctor_move(w, o, other) ==
  IF ~w.hv[other]
  THEN {Out(w, "ok", NoVal)}
  ELSE UNION {ConstructFrom(r, o, TRUE) : r \in release_value(w, other)}

assign_move_no_clear(w, o, other) ==
  IF w.hv[other]
  THEN LET w2 == [w EXCEPT !.hv[o] = TRUE]
       IN  UNION {ConstructFrom(r, o, FALSE) : r \in release_value(w2, other)}
  ELSE {Out(w, "ok", NoVal)}

\* operator=(Optional&&): clear(); if(other.has_value_) { has_value_ = true;
\* construct_at(other.release_value()); }
assign_move(w, o, other) ==
  LET w1 == clear(w, o)
  IN  IF w1.hv[other]
      THEN LET w2 == [w1 EXCEPT !.hv[o] = TRUE]
           IN  UNION {ConstructFrom(r, o, FALSE) :
                         r \in release_value(w2, other)}
      ELSE {Out(w1, "ok", NoVal)}

assign_copy_flag_first(w, o, other) ==
  LET src == w.hv[other]
      w1 == clear(w, o)
  IN  IF src
      THEN LET w2 == [w1 EXCEPT !.hv[o] = TRUE]
           IN  UNION {ConstructFrom(r, o, FALSE) :
                         r \in {Out(Read(w2, other), "ok", v) :
                                   v \in ReadT(w2, other)}}
      ELSE {Out(w1, "ok", NoVal)}

\* operator=(const Optional&): the same with other.value().
assign_copy(w, o, other) ==
  LET w1 == clear(w, o)
  IN  IF w1.hv[other]
      THEN LET w2 == [w1 EXCEPT !.hv[o] = TRUE]
           IN  UNION {ConstructFrom(r, o, FALSE) : r \in value_ref(w2, other)}
      ELSE {Out(w1, "ok", NoVal)}

\* operator*: _throw_if_inactive(), then value() of the access context.
op_star(w, o, ctx) ==
  IF throw_if_inactive(w, o)
  THEN {Out(w, "BadAccess", NoVal)}
  ELSE value(w, o, ctx)

\* operator->: _throw_if_inactive(), then the address of value().
op_arrow(w, o) ==
  IF throw_if_inactive(w, o)
  THEN {Out(w, "BadAccess", NoVal)}
  ELSE value_ref(w, o)

value_or_inverted(w, o, ctx, fb) ==
  IF ~w.hv[o]
  THEN value(w, o, ctx) \cup {Out(w, "TThrow", NoVal)}
  ELSE {Out(w, "ok", fb), Out(w, "TThrow", NoVal)}

\* value_or(fallback): value() of the access context when has_value_, else
\* the fallback; the T returned by value is built by T's copy or move
\* constructor, which may throw.
value_or(w, o, ctx, fb) ==
  IF w.hv[o]
  THEN value(w, o, ctx) \cup {Out(w, "TThrow", NoVal)}
  ELSE {Out(w, "ok", fb), Out(w, "TThrow", NoVal)}

and_then_no_check(w, o, ctx) ==
  {IF r.res = "ok" THEN Out(CallFn(r.w, r.ret), "ok", NoVal)
                   ELSE Out(r.w, r.res, NoVal) : r \in value(w, o, ctx)}

\* and_then(fn): if(self.has_value_) fn(value() of the access context);
\* returns self.
and_then(w, o, ctx) ==
  IF w.hv[o]
  THEN {IF r.res = "ok" THEN Out(CallFn(r.w, r.ret), "ok", NoVal)
                        ELSE Out(r.w, r.res, NoVal) : r \in value(w, o, ctx)}
  ELSE {Out(w, "ok", NoVal)}

transform_no_check(w, o, dst, ctx) ==
  UNION {IF r.res = "ok"
         THEN ctor_forward(CallFn(r.w, r.ret), dst, Fn(r.ret))
         ELSE {Out(r.w, r.res, NoVal)} : r \in value(w, o, ctx)}

transform_moves(w, o, dst, ctx) ==
  IF w.hv[o]
  THEN UNION {IF r.res = "ok"
              THEN ctor_forward(CallFn(r.w, r.ret), dst, Fn(r.ret))
              ELSE {Out(r.w, r.res, NoVal)} : r \in release_value(w, o)}
  ELSE ctor_default(w, dst)

\* transform(fn): OptionType{ fn(value()) } built in the new container dst
\* when has_value_, else OptionType{}.
transform(w, o, dst, ctx) ==
  IF w.hv[o]
  THEN UNION {IF r.res = "ok"
              THEN ctor_forward(CallFn(r.w, r.ret), dst, Fn(r.ret))
              ELSE {Out(r.w, r.res, NoVal)} : r \in value(w, o, ctx)}
  ELSE ctor_default(w, dst)

\* operator==(const O&): has_value_ && value() == other.
eq_value(w, o, v) ==
  IF w.hv[o]
  THEN {IF r.res = "ok" THEN Out(r.w, "ok", B2N(r.ret = v)) ELSE r :
           r \in value_ref(w, o)}
  ELSE {Out(w, "ok", B2N(FALSE))}

eq_optional_flags_only(w, o, other) ==
  {Out(w, "ok", B2N(w.hv[o] = w.hv[other]))}

\* operator==(const Optional<O>&): has_value_ == other.has_value_ &&
\* (!has_value_ || value() == other.value()).
eq_optional(w, o, other) ==
  IF w.hv[o] # w.hv[other]
  THEN {Out(w, "ok", B2N(FALSE))}
  ELSE IF ~w.hv[o]
  THEN {Out(w, "ok", B2N(TRUE))}
  ELSE UNION {IF r1.res # "ok" THEN {r1}
              ELSE {IF r2.res = "ok"
                    THEN Out(r2.w, "ok", B2N(r1.ret = r2.ret)) ELSE r2 :
                       r2 \in value_ref(r1.w, other)} :
                 r1 \in value_ref(w, o)}

\* ~Optional(): clear().
dtor(w, o) == {Out(clear(w, o), "ok", NoVal)}

----------------------------------------------------------------------------
\* The state machine: a caller that creates, uses and destroys containers.

Snapshot == [alive |-> alive, hv |-> has_value_, mem |-> value_]

NoCall == [op |-> "none", self |-> NoObj, other |-> NoObj, ctx |-> "none",
           arg |-> NoVal, res |-> "none", ret |-> NoVal,
           dCtor |-> 0, dDtor |-> 0, dBad |-> 0, dLeak |-> 0, dRead |-> 0,
           dFn |-> 0, fnArg |-> NoVal]

NoCopy == [src |-> NoObj, dst |-> NoObj, v |-> NoVal,
           usedSrc |-> FALSE, usedDst |-> FALSE]

\* cp after a call: a copy construction from a present source starts a pair;
\* a call on one container of the pair alone marks that container as used;
\* a call on both, or the end of one of them, ends the pair.
CopyPair(r, al, op, self, other) ==
  IF op = "Optional(const&)" /\ r.res = "ok" /\ value_[other].live
       /\ has_value_[other]
  THEN [src |-> other, dst |-> self, v |-> value_[other].val,
        usedSrc |-> FALSE, usedDst |-> FALSE]
  ELSE IF cp = NoCopy \/ {self, other} \cap {cp.src, cp.dst} = {}
  THEN cp
  ELSE IF other # NoObj \/ ~al[cp.src] \/ ~al[cp.dst]
  THEN NoCopy
  ELSE [cp EXCEPT !.usedSrc = @ \/ self = cp.src,
                  !.usedDst = @ \/ self = cp.dst]

Init ==
  /\ alive = [o \in Objs |-> FALSE]
  /\ has_value_ = [o \in Objs |-> FALSE]
  /\ value_ = [o \in Objs |-> DeadCell]
  /\ nCtor = 0 /\ nDtor = 0 /\ nBadDtor = 0 /\ nLeak = 0 /\ nDeadRead = 0
  /\ cp = NoCopy
  /\ steps = 0
  /\ pre = Snapshot
  /\ last = NoCall

\* The effect of an outcome r of a call of op on the state; al is the
\* liveness of the container objects after the call.
Commit(r, al, op, self, other, ctx, arg) ==
  /\ alive' = al
  /\ has_value_' = [o \in Objs |-> al[o] /\ r.w.hv[o]]
  /\ value_' = [o \in Objs |-> IF al[o] THEN r.w.mem[o] ELSE DeadCell]
  /\ nCtor' = r.w.ctor
  /\ nDtor' = r.w.dtor
  /\ nBadDtor' = r.w.bad
  /\ nLeak' = r.w.leak
              + Cardinality({o \in Objs : ~al[o] /\ r.w.mem[o].live})
  /\ nDeadRead' = r.w.rd
  /\ cp' = CopyPair(r, al, op, self, other)
  /\ pre' = Snapshot
  /\ last' = [op |-> op, self |-> self, other |-> other, ctx |-> ctx,
              arg |-> arg, res |-> r.res, ret |-> r.ret,
              dCtor |-> r.w.ctor - nCtor, dDtor |-> r.w.dtor - nDtor,
              dBad |-> r.w.bad - nBadDtor, dLeak |-> nLeak' - nLeak,
              dRead |-> r.w.rd - nDeadRead,
              dFn |-> r.w.fn, fnArg |-> r.w.farg]

\* A call of a member function of a living container.
Call(outs, op, self, other, ctx, arg) ==
  /\ steps < MaxSteps
  /\ steps' = steps + 1
  /\ \E r \in outs : Commit(r, alive, op, self, other, ctx, arg)

\* A constructor call on the memory of a new object o: the memory of
\* has_value_ holds anything before the constructor runs, and the object
\* exists only when the constructor returns normally.
New(o, b) == [World EXCEPT !.hv[o] = b]

Construct(outs, op, self, other, arg) ==
  /\ steps < MaxSteps
  /\ steps' = steps + 1
  /\ \E r \in outs :
        Commit(r, [alive EXCEPT ![self] = (r.res = "ok")],
               op, self, other, "none", arg)

DefaultConstruct(o) ==
  /\ ~alive[o]
  /\ \E b \in BOOLEAN :
        Construct(ctor_default(New(o, b), o), "Optional()", o, NoObj, NoVal)

NulloptConstruct(o) ==
  /\ ~alive[o]
  /\ \E b \in BOOLEAN :
        Construct(ctor_default(New(o, b), o), "Optional(Nullopt)", o, NoObj,
                  NoVal)

ForwardConstruct(o, v) ==
  /\ ~alive[o]
  /\ \E b \in BOOLEAN :
        Construct(ctor_forward(New(o, b), o, v), "Optional(args)", o, NoObj, v)

CopyConstruct(o, other) ==
  /\ ~alive[o] /\ alive[other]
  /\ \E b \in BOOLEAN :
        Construct(ctor_copy(New(o, b), o, other), "Optional(const&)", o,
                  other, NoVal)

MoveConstruct(o, other) ==
  /\ ~alive[o] /\ alive[other]
  /\ \E b \in BOOLEAN :
        Construct(ctor_move(New(o, b), o, other), "Optional(&&)", o, other,
                  NoVal)

Destroy(o) ==
  /\ alive[o]
  /\ UNCHANGED steps
  /\ \E r \in dtor(World, o) :
        Commit(r, [alive EXCEPT ![o] = FALSE], "~Optional", o, NoObj, "none",
               NoVal)

HasValue(o) ==
  /\ alive[o]
  /\ Call({Out(World, "ok", IF has_value_[o] THEN 1 ELSE 0)}, "has_value", o,
          NoObj, "constref", NoVal)

OperatorBool(o) ==
  /\ alive[o]
  /\ Call({Out(World, "ok", B2N(has_value_[o]))}, "operator bool", o,
          NoObj, "constref", NoVal)

ValueOr(o, ctx, fb) ==
  /\ alive[o]
  /\ Call(value_or(World, o, ctx, fb), "value_or", o, NoObj, ctx, fb)

AndThen(o, ctx) ==
  /\ alive[o]
  /\ Call(and_then(World, o, ctx), "and_then", o, NoObj, ctx, NoVal)

\* transform on o: the container it returns is the new object dst.
Transform(o, dst, ctx) ==
  /\ alive[o] /\ ~alive[dst]
  /\ steps < MaxSteps
  /\ steps' = steps + 1
  /\ \E b \in BOOLEAN : \E r \in transform(New(dst, b), o, dst, ctx) :
        Commit(r, [alive EXCEPT ![dst] = (r.res = "ok")],
               "transform", o, dst, ctx, NoVal)

Equals(o, other) ==
  /\ alive[o] /\ alive[other]
  /\ Call(eq_optional(World, o, other), "operator==(Optional)", o, other,
          "ref", NoVal)

EqualsValue(o, v) ==
  /\ alive[o]
  /\ Call(eq_value(World, o, v), "operator==(value)", o, NoObj, "ref", v)

Value(o, ctx) ==
  /\ alive[o]
  /\ Call(value(World, o, ctx), "value", o, NoObj, ctx, NoVal)

\* o.value() = v: the caller assigns through the reference value() & returns.
AssignThroughValue(o, v) ==
  /\ alive[o]
  /\ Call({IF r.res = "ok" /\ r.w.mem[Storage(o)].live
           THEN Out([r.w EXCEPT !.mem[Storage(o)].val = v], "ok", v)
           ELSE r : r \in value_ref(World, o)},
          "value=", o, NoObj, "ref", v)

OperatorStar(o, ctx) ==
  /\ alive[o]
  /\ Call(op_star(World, o, ctx), "operator*", o, NoObj, ctx, NoVal)

OperatorArrow(o, ctx) ==
  /\ alive[o]
  /\ Call(op_arrow(World, o), "operator->", o, NoObj, ctx, NoVal)

ReleaseValue(o) ==
  /\ alive[o]
  /\ Call(release_value(World, o), "release_value", o, NoObj, "ref", NoVal)

Clear(o) ==
  /\ alive[o]
  /\ Call({Out(clear(World, o), "ok", NoVal)}, "clear", o, NoObj, "ref", NoVal)

Emplace(o, v) ==
  /\ alive[o]
  /\ Call(emplace(World, o, v), "emplace", o, NoObj, "ref", v)

CopyAssign(o, other) ==
  /\ alive[o] /\ alive[other]
  /\ Call(assign_copy(World, o, other), "operator=(const&)", o, other, "ref",
          NoVal)

MoveAssign(o, other) ==
  /\ alive[o] /\ alive[other]
  /\ Call(assign_move(World, o, other), "operator=(&&)", o, other, "ref",
          NoVal)

Ctxs == {"ref", "constref", "rvalue"}

Next ==
  \/ \E o \in Objs : DefaultConstruct(o)
  \/ \E o \in Objs : NulloptConstruct(o)
  \/ \E o \in Objs, v \in Vals : ForwardConstruct(o, v)
  \/ \E o \in Objs, other \in Objs : CopyConstruct(o, other)
  \/ \E o \in Objs, other \in Objs : MoveConstruct(o, other)
  \/ \E o \in Objs : Destroy(o)
  \/ \E o \in Objs : HasValue(o)
  \/ \E o \in Objs : OperatorBool(o)
  \/ \E o \in Objs, ctx \in Ctxs, fb \in Vals : ValueOr(o, ctx, fb)
  \/ \E o \in Objs, ctx \in Ctxs : AndThen(o, ctx)
  \/ \E o \in Objs, dst \in Objs, ctx \in Ctxs : Transform(o, dst, ctx)
  \/ \E o \in Objs, other \in Objs : Equals(o, other)
  \/ \E o \in Objs, v \in Vals : EqualsValue(o, v)
  \/ \E o \in Objs, ctx \in Ctxs : Value(o, ctx)
  \/ \E o \in Objs, v \in Vals : AssignThroughValue(o, v)
  \/ \E o \in Objs, ctx \in Ctxs : OperatorStar(o, ctx)
  \/ \E o \in Objs, ctx \in {"ref", "constref"} : OperatorArrow(o, ctx)
  \/ \E o \in Objs : ReleaseValue(o)
  \/ \E o \in Objs : Clear(o)
  \/ \E o \in Objs, v \in Vals : Emplace(o, v)
  \/ \E o \in Objs, other \in Objs : CopyAssign(o, other)
  \/ \E o \in Objs, other \in Objs : MoveAssign(o, other)

Spec == Init /\ [][Next]_vars

TypeOK ==
  /\ alive \in [Objs -> BOOLEAN]
  /\ has_value_ \in [Objs -> BOOLEAN]
  /\ \A o \in Objs : value_[o] = DeadCell \/ value_[o] \in {LiveCell(v) : v \in Vals}
  /\ steps \in 0..MaxSteps

----------------------------------------------------------------------------
\* Vocabulary of the properties.  snap is Snapshot or pre.

\* o holds a live T of value v and says so.
PresentWith(snap, o, v) ==
  snap.alive[o] /\ snap.hv[o] /\ snap.mem[o] = LiveCell(v)

Present(snap, o) == snap.alive[o] /\ snap.hv[o] /\ snap.mem[o].live

\* o holds no T and says so.
Empty(snap, o) == snap.alive[o] /\ ~snap.hv[o] /\ ~snap.mem[o].live

WellFormed(snap, o) == Present(snap, o) \/ Empty(snap, o)

AllGone == \A o \in Objs : ~alive[o]

\* "value=" is value() & followed by the caller's assignment.
CheckedAccess ==
  {"value", "value=", "release_value", "operator*", "operator->"}

Assignments == {"operator=(const&)", "operator=(&&)"}

----------------------------------------------------------------------------
\* C1 (I1): in every state, for every container, has_value() is true if and
\* only if its storage holds a live T.
C1_FlagIffLive ==
  \A o \in Objs : alive[o] => (has_value_[o] <=> value_[o].live)

\* C2: no destructor runs on storage without a live T, no live T is
\* overwritten or dropped, and once every container is destroyed each T that
\* was constructed into storage has been destroyed.
C2_ExactlyOnceDestruction ==
  /\ nBadDtor = 0
  /\ nLeak = 0
  /\ AllGone => nDtor = nCtor

\* C3 (I3): when T's construction fails in a call on a container whose flag
\* agreed with its storage, no container is left with the flag true over
\* storage without a live T.
C3_ConstructBeforeFlag ==
  (/\ last.res = "TThrow"
   /\ \A o \in Objs : pre.alive[o] => WellFormed(pre, o))
  => \A o \in Objs : alive[o] => ~(has_value_[o] /\ ~value_[o].live)

\* C4 (P2): a checked access (value, release_value, operator*, operator->)
\* on an empty container fails with BadAccess and changes nothing.
C4_CheckedAccessOnEmpty ==
  (last.op \in CheckedAccess /\ Empty(pre, last.self))
  => /\ last.res = "BadAccess"
     /\ Snapshot = pre
     /\ last.dCtor = 0 /\ last.dDtor = 0 /\ last.dBad = 0 /\ last.dLeak = 0

C4_Witness ==
  /\ last.op = "operator->" /\ last.res = "BadAccess"
  /\ Empty(pre, last.self) /\ Empty(Snapshot, last.self)

C5_ReleaseReturnsAndEmpties ==
  (last.op = "release_value" /\ last.res = "ok" /\ Present(pre, last.self))
  => /\ last.ret = pre.mem[last.self].val
     /\ last.dDtor = 1 /\ last.dBad = 0 /\ last.dLeak = 0 /\ last.dCtor = 0
     /\ Empty(Snapshot, last.self)

C5_SecondReleaseFails ==
  (/\ last.op = "release_value" /\ last.res = "ok"
   /\ steps' = steps + 1
   /\ last'.op = "release_value" /\ last'.self = last.self)
  => last'.res = "BadAccess"

\* C5 (P5): release_value() on a present container holding v returns v,
\* destroys the in-place T exactly once and leaves the container empty; a
\* release_value() right after it on the same container fails with BadAccess.
C5_ReleaseEmpties ==
  []C5_ReleaseReturnsAndEmpties /\ [][C5_SecondReleaseFails]_vars

C5_Witness ==
  /\ last.op = "release_value" /\ last.res = "ok" /\ Present(pre, last.self)
  /\ last.ret = pre.mem[last.self].val /\ Empty(Snapshot, last.self)

\* C6 (P3): move construction of B from a present A holding v leaves B
\* present with v, A empty, and one live T across the two.
C6_DestructiveMove ==
  (last.op = "Optional(&&)" /\ last.res = "ok" /\ Present(pre, last.other))
  => /\ PresentWith(Snapshot, last.self, pre.mem[last.other].val)
     /\ Empty(Snapshot, last.other)
     /\ Cardinality({o \in {last.self, last.other} : value_[o].live}) = 1
     /\ last.dCtor = 1 /\ last.dDtor = 1 /\ last.dBad = 0 /\ last.dLeak = 0

C6_Witness ==
  /\ last.op = "Optional(&&)" /\ last.res = "ok" /\ Present(pre, last.other)
  /\ Present(Snapshot, last.self) /\ ~has_value_[last.other]

\* C7: copy or move construction from an empty source yields an empty
\* container and leaves the source empty.
C7_ConstructFromEmpty ==
  (/\ last.op \in {"Optional(const&)", "Optional(&&)"} /\ last.res = "ok"
   /\ Empty(pre, last.other))
  => Empty(Snapshot, last.self) /\ Empty(Snapshot, last.other)

\* C8 (P4): after copy construction of dst from a present src holding v,
\* both are present with v; calls on dst alone leave src present with v, and
\* calls on src alone leave dst present with v.
C8_CopyIndependence ==
  cp # NoCopy
  => /\ ~cp.usedSrc => PresentWith(Snapshot, cp.src, cp.v)
     /\ ~cp.usedDst => PresentWith(Snapshot, cp.dst, cp.v)

C8_Witness ==
  /\ cp # NoCopy /\ cp.usedDst /\ ~cp.usedSrc
  /\ last.op = "value=" /\ last.self = cp.dst /\ last.res = "ok"
  /\ Present(Snapshot, cp.dst) /\ value_[cp.dst].val # cp.v
  /\ PresentWith(Snapshot, cp.src, cp.v)

\* C9: assignment between two distinct containers, each empty or present:
\* the target's old T is destroyed exactly once; the target becomes present
\* iff the source was, with the source's value; copy assignment leaves the
\* source unchanged, move assignment leaves it empty.
C9_Assignment ==
  (/\ last.op \in Assignments /\ last.res = "ok" /\ last.self # last.other
   /\ WellFormed(pre, last.self) /\ WellFormed(pre, last.other))
  => LET a == last.self
         b == last.other
         move == last.op = "operator=(&&)"
     IN  /\ WellFormed(Snapshot, a)
         /\ has_value_[a] = pre.hv[b]
         /\ has_value_[a] => value_[a] = pre.mem[b]
         /\ IF move
            THEN Empty(Snapshot, b)
            ELSE has_value_[b] = pre.hv[b] /\ value_[b] = pre.mem[b]
         /\ last.dDtor = B2N(pre.hv[a]) + B2N(move /\ pre.hv[b])
         /\ last.dCtor = B2N(pre.hv[b])
         /\ last.dBad = 0 /\ last.dLeak = 0 /\ last.dRead = 0

C9_Witness ==
  /\ last.op = "operator=(&&)" /\ last.res = "ok" /\ last.self # last.other
  /\ Present(pre, last.self) /\ Present(pre, last.other)
  /\ pre.mem[last.self] # pre.mem[last.other]
  /\ value_[last.self] = pre.mem[last.other]

\* C10: assigning a container to itself, by copy or by move, raises no
\* error, destroys its T (if it held one) exactly once, reads no destroyed
\* T, constructs nothing and leaves the container empty.
C10_SelfAssignment ==
  (/\ last.op \in Assignments /\ last.self = last.other
   /\ WellFormed(pre, last.self))
  => /\ last.res = "ok"
     /\ Empty(Snapshot, last.self)
     /\ last.dDtor = B2N(pre.hv[last.self])
     /\ last.dCtor = 0 /\ last.dBad = 0 /\ last.dLeak = 0 /\ last.dRead = 0

C10_Witness ==
  /\ last.op = "operator=(&&)" /\ last.self = last.other
  /\ Present(pre, last.self) /\ Empty(Snapshot, last.self)
  /\ last.dDtor = 1

----------------------------------------------------------------------------
\* C11 (P6): transform on a present container holding v invokes fn once, on
\* v, and returns a new present container holding fn(v); on an empty
\* container it returns a new empty container without invoking fn.
C11_Transform ==
  last.op = "transform"
  => /\ (Present(pre, last.self) /\ last.res = "ok")
        => /\ last.dFn = 1 /\ last.fnArg = pre.mem[last.self].val
           /\ PresentWith(Snapshot, last.other, Fn(pre.mem[last.self].val))
     /\ Empty(pre, last.self)
        => /\ last.res = "ok" /\ last.dFn = 0
           /\ Empty(Snapshot, last.other)
           /\ last.dCtor = 0
     /\ last.dFn <= 1

C11_Witness ==
  /\ last.op = "transform" /\ last.res = "ok" /\ last.dFn = 1
  /\ last.ctx = "ref" /\ Present(pre, last.self)
  /\ PresentWith(Snapshot, last.other, Fn(pre.mem[last.self].val))
  /\ value_[last.other].val # pre.mem[last.self].val

\* C12: and_then invokes fn once with the contained value on a present
\* container and not at all on an empty one, raises no error on an empty
\* one, and in every access context leaves the presence of the container as
\* it was.
C12_AndThen ==
  (last.op = "and_then" /\ WellFormed(pre, last.self))
  => /\ (Present(pre, last.self) /\ last.res = "ok")
        => last.dFn = 1 /\ last.fnArg = pre.mem[last.self].val
     /\ Empty(pre, last.self) => last.res = "ok" /\ last.dFn = 0
     /\ last.res = "ok" => has_value_[last.self] = pre.hv[last.self]

\* C13 (P7): value_or returns the contained value of a present container
\* and the fallback of an empty one, and never raises BadAccess.
C13_ValueOr ==
  last.op = "value_or"
  => /\ last.res # "BadAccess"
     /\ (Present(pre, last.self) /\ last.res = "ok")
        => last.ret = pre.mem[last.self].val
     /\ (Empty(pre, last.self) /\ last.res = "ok") => last.ret = last.arg

C13_Witness ==
  /\ last.op = "value_or" /\ last.res = "ok" /\ Present(pre, last.self)
  /\ last.ret = pre.mem[last.self].val /\ last.ret # last.arg

\* C14 (P8): two containers compare equal iff both are empty or both are
\* present with equal values; a container equals a bare value iff it is
\* present with that value; no comparison raises BadAccess.
C14_Equality ==
  /\ (last.op = "operator==(Optional)"
      /\ WellFormed(pre, last.self) /\ WellFormed(pre, last.other))
     => /\ last.res = "ok"
        /\ last.ret = B2N(\/ Empty(pre, last.self) /\ Empty(pre, last.other)
                          \/ /\ Present(pre, last.self)
                             /\ Present(pre, last.other)
                             /\ pre.mem[last.self].val
                                  = pre.mem[last.other].val)
  /\ (last.op = "operator==(value)" /\ WellFormed(pre, last.self))
     => /\ last.res = "ok"
        /\ last.ret = B2N(Present(pre, last.self)
                          /\ pre.mem[last.self].val = last.arg)
  /\ last.op \in {"operator==(Optional)", "operator==(value)"}
     => last.res # "BadAccess"

C14_Witness ==
  /\ last.op = "operator==(Optional)" /\ last.self # last.other
  /\ Present(pre, last.self) /\ Present(pre, last.other)
  /\ pre.mem[last.self].val # pre.mem[last.other].val
  /\ last.res = "ok" /\ last.ret = 0

EmptyMakers == {"Optional()", "Optional(Nullopt)", "clear"}

PresentMakers == {"emplace", "Optional(args)"}

C15_FlagAfter ==
  /\ (last.op \in EmptyMakers /\ last.res = "ok")
     => alive[last.self] /\ ~has_value_[last.self]
  /\ (last.op \in PresentMakers /\ last.res = "ok")
     => alive[last.self] /\ has_value_[last.self]

C15_HasValueAfter ==
  (/\ last.op \in EmptyMakers \cup PresentMakers /\ last.res = "ok"
   /\ steps' = steps + 1
   /\ last'.op = "has_value" /\ last'.self = last.self)
  => last'.ret = B2N(last.op \in PresentMakers)

\* C15 (P1): has_value() right after default construction, construction
\* from Nullopt or clear() returns false, and right after emplace or the
\* forwarding constructor returns true, whatever the state before.
C15_Presence ==
  []C15_FlagAfter /\ [][C15_HasValueAfter]_vars

C15_Witness ==
  /\ last.op = "emplace" /\ last.res = "ok" /\ Present(pre, last.self)
  /\ has_value_[last.self] /\ steps >= 2

\* C16: BadAccess is raised only by value, release_value, operator* and
\* operator-> and only on a container whose has_value_ is false.
C16_BadAccessOnlyChecked ==
  last.res = "BadAccess"
  => last.op \in CheckedAccess /\ ~pre.hv[last.self]

C16_Witness ==
  /\ last.op = "and_then" /\ Empty(pre, last.self) /\ last.res = "ok"

C17_ClearInv ==
  last.op = "clear"
  => /\ last.res = "ok"
     /\ Present(pre, last.self)
        => /\ Empty(Snapshot, last.self)
           /\ last.dDtor = 1 /\ last.dBad = 0 /\ last.dCtor = 0
     /\ Empty(pre, last.self)
        => /\ Snapshot = pre
           /\ last.dDtor = 0 /\ last.dBad = 0 /\ last.dCtor = 0

C17_ClearTwice ==
  (/\ last.op = "clear" /\ WellFormed(pre, last.self)
   /\ steps' = steps + 1
   /\ last'.op = "clear" /\ last'.self = last.self)
  => /\ alive' = alive /\ has_value_' = has_value_ /\ value_' = value_
     /\ nDtor' = nDtor /\ nBadDtor' = nBadDtor /\ nCtor' = nCtor
     /\ nLeak' = nLeak

\* C17: clear() on a present container destroys its T once and empties it;
\* on an empty container it changes nothing; a second clear() right after a
\* clear() changes neither the state nor the destructor count.
C17_ClearIdempotent ==
  []C17_ClearInv /\ [][C17_ClearTwice]_vars

C17_Witness ==
  /\ last.op = "clear" /\ Present(pre, last.self)
  /\ Empty(Snapshot, last.self) /\ last.dDtor = 1

\* C18: emplace(v) on a present or empty container destroys the old T (if
\* any) exactly once, never overwrites a live T, and leaves the container
\* present with the T built from v.
C18_Emplace ==
  (last.op = "emplace" /\ last.res = "ok" /\ WellFormed(pre, last.self))
  => /\ PresentWith(Snapshot, last.self, last.arg)
     /\ last.dDtor = B2N(pre.hv[last.self])
     /\ last.dCtor = 1 /\ last.dLeak = 0 /\ last.dBad = 0
     /\ \A o \in Objs \ {last.self} : value_[o] = pre.mem[o]

C18_Witness ==
  /\ last.op = "emplace" /\ last.res = "ok" /\ Present(pre, last.self)
  /\ pre.mem[last.self].val # last.arg
  /\ PresentWith(Snapshot, last.self, last.arg) /\ last.dDtor = 1

Extractors == {"value", "value_or", "transform"}

\* C19: value(), value_or and transform on a present container held as an
\* rvalue move the value out, destroy the in-place T exactly once and leave
\* the container empty; whatever the outcome, the container is never left
\* flagged present over storage without a live T.
C19_RvalueExtraction ==
  (last.op \in Extractors /\ last.ctx = "rvalue" /\ Present(pre, last.self))
  => /\ WellFormed(Snapshot, last.self)
     /\ last.dBad = 0 /\ last.dRead = 0 /\ last.dLeak = 0
     /\ last.res = "ok"
        => /\ Empty(Snapshot, last.self)
           /\ last.dDtor = 1
           /\ last.op # "transform" => last.ret = pre.mem[last.self].val
           /\ last.op = "transform"
              => PresentWith(Snapshot, last.other,
                             Fn(pre.mem[last.self].val))

C19_Witness ==
  /\ last.op = "value_or" /\ last.ctx = "rvalue" /\ last.res = "ok"
  /\ Present(pre, last.self) /\ Empty(Snapshot, last.self)
  /\ last.ret = pre.mem[last.self].val /\ last.dDtor = 1

NonDestructive ==
  {"has_value", "operator bool", "value", "operator*", "operator->",
   "value_or", "transform", "operator==(Optional)", "operator==(value)"}

C20_Frame ==
  (last.op \in NonDestructive /\ last.ctx \in {"ref", "constref"})
  => /\ has_value_[last.self] = pre.hv[last.self]
     /\ value_[last.self] = pre.mem[last.self]
     /\ last.dDtor = 0 /\ last.dBad = 0 /\ last.dLeak = 0
     /\ IF last.op = "transform"
        THEN last.dCtor = B2N(value_[last.other].live)
        ELSE /\ last.dCtor = 0
             /\ \A o \in Objs : value_[o] = pre.mem[o]
                                /\ has_value_[o] = pre.hv[o]

C20_ReleaseAfterTransform ==
  (/\ last.op = "transform" /\ last.ctx \in {"ref", "constref"}
   /\ Present(pre, last.self)
   /\ steps' = steps + 1
   /\ last'.op = "release_value" /\ last'.self = last.self
   /\ last'.res = "ok")
  => last'.ret = pre.mem[last.self].val

\* C20: has_value, operator bool, value, operator*, operator->, value_or,
\* transform and the comparisons, on a container held by reference, leave
\* its flag and its T as they were and construct and destroy nothing in it;
\* a release_value() after a transform still returns the original value.
C20_NonDestructive ==
  []C20_Frame /\ [][C20_ReleaseAfterTransform]_vars

C20_Witness ==
  /\ last.op = "transform" /\ last.ctx = "ref" /\ last.res = "ok"
  /\ Present(pre, last.self)
  /\ PresentWith(Snapshot, last.self, pre.mem[last.self].val)
  /\ PresentWith(Snapshot, last.other, Fn(pre.mem[last.self].val))

====
